---- MODULE Spec2Model ----
(***************************************************************************)
(* Caesar-cipher core of secret-message-decoder (src/modules/cipher.py).   *)
(*                                                                         *)
(* A text is a sequence of Unicode code points.  The character tables of   *)
(* Python (str.isalpha, str.isupper, str.isspace, str.lower,               *)
(* string.punctuation) are written out for the code points 0..255 and for  *)
(* the basic Cyrillic letters 1040..1103; every text of the model is drawn *)
(* from that range.  A float score matches/len(cleaned) is the fraction in *)
(* lowest terms <<numerator, denominator>>; 0.0 is <<0, 1>>.               *)
(***************************************************************************)
EXTENDS Integers, Sequences, FiniteSets, TLC

VARIABLES
    text,            \* the text the caller starts from
    n,               \* the shift the caller passes to encrypt_text / decrypt_text
    cur,             \* the caller's current text (result of the last call)
    hist,            \* the calls made so far: [op, in, out]
    pc,              \* position of brute_force_decrypt: "idle", "loop", "done"
    encrypted_text,  \* brute_force_decrypt: its argument
    shift,           \* brute_force_decrypt: the loop variable of range(26)
    best_score,      \* brute_force_decrypt: local best_score
    best_shift,      \* brute_force_decrypt: local best_shift (None or Some(s))
    best_text,       \* brute_force_decrypt: local best_text (None or Some(t))
    attempts,        \* brute_force_decrypt: local attempts
    is_eng,          \* brute_force_decrypt: local is_eng (None before the loop)
    match_cnt,       \* brute_force_decrypt: local match_cnt (None before the loop)
    apc,             \* text statistics: "off", "start", "analyzed", "full", "drawn", "charted"
    analysis,        \* the dict returned by analyze_text / full_analysis
    chart,           \* draw_chars: the dict d handed to the pie chart
    app,             \* the window: "off", "interface" or "enhanced_interface"
    txt_encrypted,   \* content of the encrypted-text widget
    btn_decrypt,     \* state of the decrypt button: "normal" or "disabled"
    status_text,     \* the status line, a tuple of its parts
    lbl_shift,       \* the detected-shift label: None for "--", or Some(s)
    current_shift,   \* the IntVar current_shift
    txt_decrypted,   \* content of the decrypted-text widget
    history,         \* self.history / self.history_list
    dialog,          \* the last message box shown: None or <<title, message>>
    workers,         \* the worker threads started so far, in order
    queue,           \* callbacks scheduled with window.after(0, ...), in order
    last_attempts,   \* CaesarCipher.last_attempts of self.cipher
    shift_chart,     \* draw_shifts: None, or what plot_shift_attempts drew or raised
    file_log         \* the results FileHandler has returned: [op, ok, data]

vars == <<text, n, cur, hist, pc, encrypted_text, shift,
          best_score, best_shift, best_text, attempts, is_eng, match_cnt,
          apc, analysis, chart,
          app, txt_encrypted, btn_decrypt, status_text, lbl_shift, current_shift,
          txt_decrypted, history, dialog, workers, queue, last_attempts, shift_chart,
          file_log>>

avars == <<apc, analysis, chart>>

gvars == <<app, txt_encrypted, btn_decrypt, status_text, lbl_shift, current_shift,
           txt_decrypted, history, dialog, workers, queue, last_attempts, shift_chart,
           file_log>>

bfvars == <<pc, encrypted_text, shift, best_score, best_shift, best_text, attempts,
            is_eng, match_cnt>>

----------------------------------------------------------------------------
(* Bounds of the model *)

MaxLen == 2          \* longest text drawn letter by letter
MaxShiftArg == 27    \* shift arguments range over -MaxShiftArg..MaxShiftArg
MaxOps == 2          \* calls of encrypt_text / decrypt_text in a row
MaxWords == 1        \* words in a plaintext built from the reference set
MaxTieShift == 2     \* per-word shifts of the two-word ciphertexts
MaxMinMatches == 3   \* thresholds 0..MaxMinMatches of check_english_words
MaxALen == 4         \* longest text of the statistics drawn character by character
MaxTotal == 11       \* longest text of the statistics composed by character class
MaxStarts == 2       \* decryptions the user starts in one window
MaxFileOps == 2      \* calls of FileHandler made from one window

----------------------------------------------------------------------------
(* Python's character tables *)

isalpha(ch) ==
    \/ ch \in 65..90    \/ ch \in 97..122
    \/ ch \in {170, 181, 186}
    \/ ch \in 192..214  \/ ch \in 216..246 \/ ch \in 248..255
    \/ ch \in 1040..1103

isupper(ch) ==
    \/ ch \in 65..90
    \/ ch \in 192..214  \/ ch \in 216..222
    \/ ch \in 1040..1071

isspace(ch) == ch \in (9..13) \cup (28..32) \cup {133, 160}

punctuation == (33..47) \cup (58..64) \cup (91..96) \cup (123..126)

lower_ch(ch) == IF isupper(ch) THEN ch + 32 ELSE ch

lower(s) == [i \in 1..Len(s) |-> lower_ch(s[i])]

----------------------------------------------------------------------------
(* Optional values: None, or Some(x) *)

None == <<>>
Some(x) == <<x>>

----------------------------------------------------------------------------
(* Shift transform *)

NumShifts == 26

COMMON_ENGLISH_WORDS == {
    <<116, 104, 101>>,                    \* the
    <<97, 110, 100>>,                     \* and
    <<105, 115>>,                         \* is
    <<109, 101, 115, 115, 97, 103, 101>>, \* message
    <<115, 101, 99, 114, 101, 116>>,      \* secret
    <<116, 111>>,                         \* to
    <<111, 102>>,                         \* of
    <<105, 110>>,                         \* in
    <<102, 111, 114>>,                    \* for
    <<111, 110>>,                         \* on
    <<119, 105, 116, 104>>,               \* with
    <<97, 116>>,                          \* at
    <<98, 121>>,                          \* by
    <<102, 114, 111, 109>>,               \* from
    <<116, 104, 105, 115>> }              \* this

\* shift = shift % 26 (Python's % is the floored remainder, as is TLA+'s)
NormalizeAbs(s) == (IF s < 0 THEN -s ELSE s) % 26
Normalize(s) == s % 26

\* the loop body of encrypt_text with every character shifted
encrypt_ch_all(ch, s) ==
    LET base == IF isupper(ch) THEN 65 ELSE 97
    IN  ((ch - base + s) % 26) + base

\* the loop body of encrypt_text with base 97 for every letter
encrypt_ch_lowerbase(ch, s) ==
    IF isalpha(ch) THEN ((ch - 97 + s) % 26) + 97 ELSE ch

\* the loop body of encrypt_text: one character, s already normalized
encrypt_ch(ch, s) ==
    IF isalpha(ch)
    THEN LET base == IF isupper(ch) THEN 65 ELSE 97
         IN  ((ch - base + s) % 26) + base
    ELSE ch

encrypt_text(t, s) ==
    LET sh == Normalize(s)
    IN  [i \in 1..Len(t) |-> encrypt_ch(t[i], sh)]

decrypt_text_same(t, s) == encrypt_text(t, s)
decrypt_text(t, s) == encrypt_text(t, -s)

----------------------------------------------------------------------------
(* Heuristic scorer *)

RECURSIVE GCD(_, _)
GCD(a, b) == IF b = 0 THEN a ELSE GCD(b, a % b)

\* the float m / d (d > 0) as a fraction in lowest terms
Float(m, d) == LET g == GCD(m, d) IN <<m \div g, d \div g>>

Zero == <<0, 1>>

GT(x, y) == x[1] * y[2] > y[1] * x[2]
GE(x, y) == x[1] * y[2] >= y[1] * x[2]

\* str.split(): the maximal runs of non-whitespace characters
RECURSIVE SplitFrom(_, _, _, _)
SplitFrom(s, i, acc, tok) ==
    IF i > Len(s)
    THEN IF tok = <<>> THEN acc ELSE Append(acc, tok)
    ELSE IF isspace(s[i])
         THEN SplitFrom(s, i + 1, IF tok = <<>> THEN acc ELSE Append(acc, tok), <<>>)
         ELSE SplitFrom(s, i + 1, acc, Append(tok, s[i]))

split(s) == SplitFrom(s, 1, <<>>, <<>>)

\* str.strip(string.punctuation)
RECURSIVE lstrip(_)
lstrip(w) == IF w # <<>> /\ Head(w) \in punctuation THEN lstrip(Tail(w)) ELSE w

RECURSIVE rstrip(_)
rstrip(w) ==
    IF w # <<>> /\ w[Len(w)] \in punctuation
    THEN rstrip(SubSeq(w, 1, Len(w) - 1))
    ELSE w

strip(w) == rstrip(lstrip(w))

\* [w for w in cleaned if w] (line 97), with a filter that keeps everything
KeepAll(w) == TRUE
NonEmpty(w) == w # <<>>
IsCommon(w) == w \in COMMON_ENGLISH_WORDS

\* the cleaned tokens of calculate_word_score (lines 91-97)
CleanWords(t) ==
    LET words == split(lower(t))
    IN  SelectSeq([i \in 1..Len(words) |-> strip(words[i])], NonEmpty)

\* min_matches=3 (line 52)
DefaultMinMatches == 3

\* check_english_words with the threshold exclusive
check_english_words_strict(t, min_matches) ==
    LET matches == Len(SelectSeq(CleanWords(t), IsCommon))
    IN  <<matches > min_matches, matches>>

\* lines 63-78: (is_valid, match_count)
check_english_words(t, min_matches) ==
    LET matches == Len(SelectSeq(CleanWords(t), IsCommon))
    IN  <<matches >= min_matches, matches>>

calculate_word_score(t) ==
    LET words == split(lower(t))
    IN  IF words = <<>>
        THEN Zero
        ELSE LET cleaned == CleanWords(t)
             IN  IF cleaned = <<>>
                 THEN Zero
                 ELSE Float(Len(SelectSeq(cleaned, IsCommon)), Len(cleaned))

----------------------------------------------------------------------------
(* Brute-force decoder *)

\* best_score = 0.0 (line 120)
InitBestScoreNegative == <<-1, 1>>
InitBestScore == Zero

\* if score > best_score (line 149)
IsBetterOrEqual(score, best) == GE(score, best)
IsBetter(score, best) == GT(score, best)

\* for shift in range(26) (line 130)
InRangeFromOne(sh) == sh + 1 < NumShifts
InRange(sh) == sh < NumShifts

\* attempts.sort(key=lambda x: x[2], reverse=True): a stable sort, equal
\* scores keep the order in which they were appended
RECURSIVE InsertBeforeEqual(_, _)
InsertBeforeEqual(x, s) ==
    IF s = <<>> THEN <<x>>
    ELSE IF GE(x[3], Head(s)[3]) THEN <<x>> \o s
         ELSE <<Head(s)>> \o InsertBeforeEqual(x, Tail(s))

RECURSIVE Insert(_, _)
Insert(x, s) ==
    IF s = <<>> THEN <<x>>
    ELSE IF GT(x[3], Head(s)[3]) THEN <<x>> \o s
         ELSE <<Head(s)>> \o Insert(x, Tail(s))

RECURSIVE SortFrom(_, _, _)
SortFrom(s, i, acc) ==
    IF i > Len(s) THEN acc ELSE SortFrom(s, i + 1, Insert(s[i], acc))

sort(s) == SortFrom(s, 1, <<>>)

\* lines 120-123
BFStart ==
    /\ pc = "idle"
    /\ pc' = "loop"
    /\ encrypted_text' = cur
    /\ best_score' = InitBestScore
    /\ best_shift' = None
    /\ best_text' = None
    /\ attempts' = <<>>
    /\ shift' = 0
    /\ UNCHANGED <<text, n, cur, hist, is_eng, match_cnt, avars, gvars>>

\* one iteration of the loop, lines 130-152 (verbose = False)
BFIter ==
    /\ pc = "loop"
    /\ InRange(shift)
    /\ \E decrypted \in {decrypt_text(encrypted_text, shift)} :
       \E checked \in {check_english_words(decrypted, DefaultMinMatches)} :
       \E score \in {calculate_word_score(decrypted)} :
           /\ is_eng' = Some(checked[1])
           /\ match_cnt' = Some(checked[2])
           /\ attempts' = Append(attempts, <<shift, decrypted, score>>)
           /\ IF IsBetter(score, best_score)
              THEN /\ best_score' = score
                   /\ best_shift' = Some(shift)
                   /\ best_text' = Some(decrypted)
              ELSE UNCHANGED <<best_score, best_shift, best_text>>
    /\ shift' = shift + 1
    /\ UNCHANGED <<text, n, cur, hist, pc, encrypted_text, avars, gvars>>

\* loop exit, sort and return, lines 154-164
BFReturn ==
    /\ pc = "loop"
    /\ ~InRange(shift)
    /\ attempts' = sort(attempts)
    /\ pc' = "done"
    /\ UNCHANGED <<text, n, cur, hist, encrypted_text, shift,
                   best_score, best_shift, best_text, is_eng, match_cnt, avars, gvars>>

----------------------------------------------------------------------------
(* Python floats of the text statistics                                    *)
(*                                                                         *)
(* The percentages are IEEE-754 doubles and their rounding is observable,  *)
(* so a double is modelled bit for bit: [m, e] is the value m * 2^e with m *)
(* a 53-bit significand, most significant bit first and equal to 1; 0.0 is *)
(* DZero.  Every operation computes the exact result as a bit sequence and *)
(* rounds it to nearest, ties to even.  All values are non-negative and in *)
(* the normal range.                                                       *)

Zeros(k) == [i \in 1..k |-> 0]

DZero == [m |-> <<>>, e |-> 0]

\* the binary digits of a natural number, most significant first
RECURSIVE IntBits(_)
IntBits(k) == IF k = 0 THEN <<>> ELSE Append(IntBits(k \div 2), k % 2)

\* b without its leading zeros
StripZeros(b) ==
    IF \A i \in 1..Len(b) : b[i] = 0 THEN <<>>
    ELSE SubSeq(b, CHOOSE i \in 1..Len(b) :
                       b[i] = 1 /\ \A j \in 1..(i - 1) : b[j] = 0, Len(b))

PadTo(b, L) == Zeros(L - Len(b)) \o b

\* b + 1
IncBits(b) ==
    IF \A i \in 1..Len(b) : b[i] = 1 THEN <<1>> \o Zeros(Len(b))
    ELSE LET z == CHOOSE i \in 1..Len(b) :
                      b[i] = 0 /\ \A j \in (i + 1)..Len(b) : b[j] = 1
         IN  [i \in 1..Len(b) |-> IF i < z THEN b[i] ELSE IF i = z THEN 1 ELSE 0]

\* a + b: the carry into position i comes from the nearest position to its
\* right that does not pass a carry on unchanged
AddBits(a, b) ==
    LET L == IF Len(a) > Len(b) THEN Len(a) ELSE Len(b)
        a2 == PadTo(a, L)
        b2 == PadTo(b, L)
        carry(i) == \E j \in (i + 1)..L :
                        /\ a2[j] + b2[j] = 2
                        /\ \A k \in (i + 1)..(j - 1) : a2[k] + b2[k] = 1
        sum == [i \in 1..L |-> (a2[i] + b2[i] + (IF carry(i) THEN 1 ELSE 0)) % 2]
    IN  IF carry(0) THEN <<1>> \o sum ELSE StripZeros(sum)

\* a - b for a >= b: the borrow into position i comes from the nearest
\* position to its right where the digits differ
SubBits(a, b) ==
    LET L == IF Len(a) > Len(b) THEN Len(a) ELSE Len(b)
        a2 == PadTo(a, L)
        b2 == PadTo(b, L)
        borrow(i) == \E j \in (i + 1)..L :
                         /\ a2[j] < b2[j]
                         /\ \A k \in (i + 1)..(j - 1) : a2[k] = b2[k]
    IN  StripZeros([i \in 1..L |->
                       (a2[i] + b2[i] + (IF borrow(i) THEN 1 ELSE 0)) % 2])

\* b * k for a small natural k, by the binary digits of k
RECURSIVE MulBits(_, _)
MulBits(b, k) ==
    IF k = 0 \/ b = <<>> THEN <<>>
    ELSE LET half == MulBits(b, k \div 2)
             twice == IF half = <<>> THEN <<>> ELSE half \o <<0>>
         IN  IF k % 2 = 1 THEN AddBits(twice, b) ELSE twice

\* a > b as numbers
BitsGT(a, b) ==
    LET L == IF Len(a) > Len(b) THEN Len(a) ELSE Len(b)
        a2 == PadTo(a, L)
        b2 == PadTo(b, L)
    IN  \E i \in 1..L : a2[i] > b2[i] /\ \A j \in 1..(i - 1) : a2[j] = b2[j]

\* the double nearest to b * 2^e (plus a nonzero tail below the last bit of b
\* when sticky), ties to even; b is empty or starts with 1
Round(b, e, sticky) ==
    IF b = <<>> THEN DZero
    ELSE IF Len(b) <= 53
         THEN [m |-> b \o Zeros(53 - Len(b)), e |-> e - (53 - Len(b))]
         ELSE LET keep == SubSeq(b, 1, 53)
                  rest == sticky \/ \E i \in 55..Len(b) : b[i] = 1
                  up == b[54] = 1 /\ (rest \/ keep[53] = 1)
                  e2 == e + Len(b) - 53
                  inc == IncBits(keep)
              IN  IF ~up THEN [m |-> keep, e |-> e2]
                  ELSE IF Len(inc) = 54
                       THEN [m |-> SubSeq(inc, 1, 53), e |-> e2 + 1]
                       ELSE [m |-> inc, e |-> e2]

\* float(k) for a natural number k
FromInt(k) == Round(IntBits(k), 0, FALSE)

\* 2^i mod t, for i up to 3 * 20
Pow2Mod(i, t) ==
    LET a == i \div 3
        b == (i - a) \div 2
        c == i - a - b
    IN  (((((2^a) % t) * ((2^b) % t)) % t) * ((2^c) % t)) % t

\* c / t for integers c >= 0 and t > 0 (true division, correctly rounded):
\* the integer part, then 60 digits after the binary point by long division,
\* the remainder after i digits being c * 2^i mod t
DivInt(c, t) ==
    LET rem(i) == ((c % t) * Pow2Mod(i, t)) % t
        frac == [i \in 1..60 |-> (2 * rem(i - 1)) \div t]
    IN  Round(StripZeros(IntBits(c \div t) \o frac), -60, rem(60) # 0)

\* x * k for a double x and a small natural k (k is exact as a float)
MulInt(x, k) == Round(MulBits(x.m, k), x.e, FALSE)

\* the bits of x and y on a common exponent
Aligned(x, y) ==
    LET e == IF x.e < y.e THEN x.e ELSE y.e
    IN  <<x.m \o Zeros(x.e - e), y.m \o Zeros(y.e - e), e>>

\* x + y
DAdd(x, y) ==
    IF x = DZero THEN y
    ELSE IF y = DZero THEN x
         ELSE LET al == Aligned(x, y)
              IN  Round(AddBits(al[1], al[2]), al[3], FALSE)

\* x > y
DGT(x, y) ==
    IF x = DZero THEN FALSE
    ELSE IF y = DZero THEN TRUE
         ELSE LET al == Aligned(x, y) IN BitsGT(al[1], al[2])

\* x - y as sign and magnitude
DSub(x, y) ==
    LET xb == IF x = DZero THEN <<>> ELSE Aligned(x, IF y = DZero THEN x ELSE y)[1]
        yb == IF y = DZero THEN <<>> ELSE Aligned(IF x = DZero THEN y ELSE x, y)[2]
        e == IF x = DZero THEN y.e
             ELSE IF y = DZero THEN x.e
                  ELSE Aligned(x, y)[3]
    IN  IF BitsGT(yb, xb)
        THEN [neg |-> TRUE, abs |-> Round(SubBits(yb, xb), e, FALSE)]
        ELSE [neg |-> FALSE, abs |-> Round(SubBits(xb, yb), e, FALSE)]

\* the exception of a division by zero, in place of the value
ZeroDivisionError == [raised |-> "ZeroDivisionError"]

\* c / t for integers c >= 0 and t >= 0: Python raises when t is 0
TrueDiv(c, t) == IF t = 0 THEN ZeroDivisionError ELSE DivInt(c, t)

\* x * k, where the evaluation of x may have raised
Times(x, k) == IF x = ZeroDivisionError THEN x ELSE MulInt(x, k)

\* what a call hands back: its dict, unless one of its divisions raised
Returned(a, floats) == IF ZeroDivisionError \in floats THEN ZeroDivisionError ELSE a

----------------------------------------------------------------------------
(* Text statistics (src/modules/text_analyzer.py)                          *)
(*                                                                         *)
(* A dict is the sequence of its <<key, value>> items in insertion order.  *)
(* The result of analyze_text is a record with the keys the properties     *)
(* read; full_analysis adds its own keys to it.                            *)

isdigit(ch) == ch \in (48..57) \cup {178, 179, 185}

\* vowels = 'aeiouAEIOU'
vowels == {97, 101, 105, 111, 117, 65, 69, 73, 79, 85}

Reverse(w) == [i \in 1..Len(w) |-> w[Len(w) + 1 - i]]

\* len(words) counting only the tokens that hold a letter
word_count_lettered(t) ==
    LET words == split(t)
    IN  Cardinality({i \in 1..Len(words) :
                        \E j \in 1..Len(words[i]) : isalpha(words[i][j])})

\* word_count = len(words), words = text.split()
word_count(t) == Len(split(t))

\* max(words, key=len) that keeps the last of the longest
RECURSIVE MaxFromLast(_, _, _)
MaxFromLast(ws, i, best) ==
    IF i > Len(ws) THEN best
    ELSE MaxFromLast(ws, i + 1, IF Len(ws[i]) >= Len(best) THEN ws[i] ELSE best)

\* max(words, key=len): a later token replaces the best only if longer
RECURSIVE MaxFrom(_, _, _)
MaxFrom(ws, i, best) ==
    IF i > Len(ws) THEN best
    ELSE MaxFrom(ws, i + 1, IF Len(ws[i]) > Len(best) THEN ws[i] ELSE best)

\* min(..., key=len): a later token replaces the best only if shorter
RECURSIVE MinFrom(_, _, _)
MinFrom(ws, i, best) ==
    IF i > Len(ws) THEN best
    ELSE MinFrom(ws, i + 1, IF Len(ws[i]) < Len(best) THEN ws[i] ELSE best)

\* filter(None, words)
Truthy(w) == w # <<>>

longest_word(t) ==
    LET words == split(t)
    IN  IF words # <<>> THEN MaxFrom(words, 2, words[1]) ELSE <<>>

shortest_word(t) ==
    LET words == SelectSeq(split(t), Truthy)
    IN  IF split(t) # <<>> THEN MinFrom(words, 2, words[1]) ELSE <<>>

RECURSIVE SumLen(_, _)
SumLen(ws, i) == IF i > Len(ws) THEN 0 ELSE Len(ws[i]) + SumLen(ws, i + 1)

\* sum(map(len, words)) / len(words) without the test of words
average_word_length_unguarded(t) ==
    LET words == split(t)
    IN  TrueDiv(SumLen(words, 1), Len(words))

\* sum(map(len, words)) / len(words) if words else 0.0
average_word_length(t) ==
    LET words == split(t)
    IN  IF words # <<>> THEN TrueDiv(SumLen(words, 1), Len(words)) ELSE DZero

vowel_count(t) == Cardinality({i \in 1..Len(t) : t[i] \in vowels})

alpha_count(t) == Cardinality({i \in 1..Len(t) : isalpha(t[i])})

digit_count(t) == Cardinality({i \in 1..Len(t) : isdigit(t[i])})

punct_count(t) == Cardinality({i \in 1..Len(t) : t[i] \in punctuation})

\* the vowels as a share of all characters
vowel_percent_of_chars(t) ==
    IF alpha_count(t) > 0
    THEN MulInt(DivInt(vowel_count(t), Len(t)), 100)
    ELSE DZero

\* (vowel_count / alpha_count * 100) if alpha_count > 0 else 0.0
vowel_percent(t) ==
    IF alpha_count(t) > 0
    THEN Times(TrueDiv(vowel_count(t), alpha_count(t)), 100)
    ELSE DZero

\* d[k] = d.get(k, 0) + 1
RECURSIVE CountAdd(_, _)
CountAdd(d, k) ==
    IF d = <<>> THEN <<<<k, 1>>>>
    ELSE IF Head(d)[1] = k
         THEN <<<<k, Head(d)[2] + 1>>>> \o Tail(d)
         ELSE <<Head(d)>> \o CountAdd(Tail(d), k)

RECURSIVE LengthDistFrom(_, _, _)
LengthDistFrom(ws, i, d) ==
    IF i > Len(ws) THEN d ELSE LengthDistFrom(ws, i + 1, CountAdd(d, Len(ws[i])))

\* the items sorted with the greatest key first
RECURSIVE InsertByKeyDesc(_, _)
InsertByKeyDesc(x, d) ==
    IF d = <<>> THEN <<x>>
    ELSE IF x[1] > Head(d)[1] THEN <<x>> \o d
         ELSE <<Head(d)>> \o InsertByKeyDesc(x, Tail(d))

\* sorted(length_dist.items()): ascending keys (the keys are distinct)
RECURSIVE InsertByKey(_, _)
InsertByKey(x, d) ==
    IF d = <<>> THEN <<x>>
    ELSE IF x[1] < Head(d)[1] THEN <<x>> \o d
         ELSE <<Head(d)>> \o InsertByKey(x, Tail(d))

RECURSIVE SortedItemsFrom(_, _, _)
SortedItemsFrom(d, i, acc) ==
    IF i > Len(d) THEN acc ELSE SortedItemsFrom(d, i + 1, InsertByKey(d[i], acc))

word_length_distribution(t) ==
    SortedItemsFrom(LengthDistFrom(split(t), 1, <<>>), 1, <<>>)

\* the palindrome test on the token as it stands
IsPalindromeRaw(w) == w = Reverse(w) /\ Len(w) > 1

\* the palindrome test without the test of the length
IsPalindromeAnyLength(w) ==
    LET clean == lower(SelectSeq(w, isalpha))
    IN  clean # <<>> /\ clean = Reverse(clean)

\* clean = ''.join(ch.lower() for ch in w if ch.isalpha());
\* clean and clean == clean[::-1] and len(clean) > 1
IsPalindrome(w) ==
    LET clean == lower(SelectSeq(w, isalpha))
    IN  clean # <<>> /\ clean = Reverse(clean) /\ Len(clean) > 1

palindrome_words(t) == SelectSeq(split(t), IsPalindrome)

\* Counter(w.lower() for w in words if w.strip())
RECURSIVE CounterFrom(_, _, _)
CounterFrom(ws, i, d) ==
    IF i > Len(ws) THEN d
    ELSE CounterFrom(ws, i + 1, CountAdd(d, lower(ws[i])))

\* descending counts, a later item put before the earlier ones of its count
RECURSIVE InsertByCountBeforeEqual(_, _)
InsertByCountBeforeEqual(x, d) ==
    IF d = <<>> THEN <<x>>
    ELSE IF x[2] >= Head(d)[2] THEN <<x>> \o d
         ELSE <<Head(d)>> \o InsertByCountBeforeEqual(x, Tail(d))

\* most_common: descending counts, equal counts in insertion order
RECURSIVE InsertByCount(_, _)
InsertByCount(x, d) ==
    IF d = <<>> THEN <<x>>
    ELSE IF x[2] > Head(d)[2] THEN <<x>> \o d
         ELSE <<Head(d)>> \o InsertByCount(x, Tail(d))

RECURSIVE MostCommonFrom(_, _, _)
MostCommonFrom(d, i, acc) ==
    IF i > Len(d) THEN acc ELSE MostCommonFrom(d, i + 1, InsertByCount(d[i], acc))

\* word_freq.most_common(20)
top_words(t) ==
    LET all == MostCommonFrom(CounterFrom(split(t), 1, <<>>), 1, <<>>)
    IN  SubSeq(all, 1, IF Len(all) < 20 THEN Len(all) ELSE 20)

\* text.count(' ')
space_count(t) == Cardinality({i \in 1..Len(t) : t[i] = 32})

\* count / total * 100 if total > 0 else 0.0
Percentage(count, total) ==
    IF total > 0 THEN Times(TrueDiv(count, total), 100) ELSE DZero

analyze_text(t) ==
    [ original_text |-> t,
      word_count |-> word_count(t),
      character_count |-> Len(t),
      longest_word |-> longest_word(t),
      shortest_word |-> shortest_word(t),
      average_word_length |-> average_word_length(t),
      vowel_percentage |-> vowel_percent(t),
      word_length_distribution |-> word_length_distribution(t),
      alphabetic_character_count |-> alpha_count(t),
      digit_count |-> digit_count(t),
      punctuation_count |-> punct_count(t),
      palindrome_words |-> palindrome_words(t) ]

\* TextAnalyzer.full_analysis: the keys it adds to the analysis
full_analysis(t) ==
    LET a == analyze_text(t)
        total == Len(t)
    IN  [ original_text |-> a.original_text,
          word_count |-> a.word_count,
          character_count |-> a.character_count,
          longest_word |-> a.longest_word,
          shortest_word |-> a.shortest_word,
          average_word_length |-> a.average_word_length,
          vowel_percentage |-> a.vowel_percentage,
          word_length_distribution |->
              IF split(t) # <<>> THEN a.word_length_distribution ELSE <<>>,
          alphabetic_character_count |-> a.alphabetic_character_count,
          digit_count |-> a.digit_count,
          punctuation_count |-> a.punctuation_count,
          palindrome_words |-> a.palindrome_words,
          total_chars |-> a.character_count,
          letter_percentage |-> Percentage(a.alphabetic_character_count, total),
          digit_percentage |-> Percentage(a.digit_count, total),
          space_percentage |-> Percentage(space_count(t), total),
          top_words |-> IF split(t) # <<>> THEN top_words(t) ELSE <<>> ]

\* draw_chars: sum([letter_percentage, digit_percentage, space_percentage]),
\* added from left to right starting from 0
ShareSum(a) ==
    DAdd(DAdd(DAdd(DZero, a.letter_percentage), a.digit_percentage),
         a.space_percentage)

\* the dict d of draw_chars
CharShares(a) ==
    [ Letters |-> a.letter_percentage,
      Digits |-> a.digit_percentage,
      Spaces |-> a.space_percentage,
      Other |-> DSub(FromInt(100), ShareSum(a)) ]

\* analyze_text(text)
Analyze ==
    /\ apc = "start"
    /\ apc' = "analyzed"
    /\ \E a \in {analyze_text(text)} :
           analysis' = Returned(a, {a.average_word_length, a.vowel_percentage})
    /\ UNCHANGED <<text, n, cur, hist, bfvars, chart, gvars>>

\* self.analysis_results = TextAnalyzer().full_analysis(text)
FullAnalysis ==
    /\ apc = "start"
    /\ apc' = "full"
    /\ \E a \in {full_analysis(text)} :
           analysis' = Returned(a, {a.average_word_length, a.vowel_percentage,
                                    a.letter_percentage, a.digit_percentage,
                                    a.space_percentage})
    /\ UNCHANGED <<text, n, cur, hist, bfvars, chart, gvars>>

\* draw_chars on the stored analysis
DrawChars ==
    /\ apc = "full"
    /\ apc' = "drawn"
    /\ chart' = CharShares(analysis)
    /\ UNCHANGED <<text, n, cur, hist, bfvars, analysis, gvars>>

\* self.analysis_results['top_words'][:10]
FirstTen(tw) == SubSeq(tw, 1, IF Len(tw) < 10 THEN Len(tw) ELSE 10)

\* draw_frequency on the stored analysis: without top words it warns and
\* leaves the canvas alone, else it charts dict(top_words[:10]), whose keys
\* are distinct already
DrawFrequency ==
    /\ apc = "full"
    /\ apc' = "charted"
    /\ chart' = IF analysis.top_words = <<>> THEN chart
                 ELSE FirstTen(analysis.top_words)
    /\ UNCHANGED <<text, n, cur, hist, bfvars, analysis, gvars>>

----------------------------------------------------------------------------
(* The window (src/gui/interface.py, src/gui/enhanced_interface.py) and    *)
(* the CaesarCipher object it shares with its worker threads               *)

\* "the the ... the", thirteen times: 51 characters
LongPlain == [i \in 1..51 |-> <<116, 104, 101, 32>>[((i - 1) % 4) + 1]]

\* LongPlain shifted by 3, between spaces
LongInput == <<32>> \o encrypt_text(LongPlain, 3) \o <<32>>

\* what the user types: " ", "zz" (no shift scores), "to" (shift 0) and
\* LongInput (the 51 characters of LongPlain by shift 3)
GuiInputs ==
    { <<32>>, <<122, 122>>, <<116, 111>>, LongInput }

\* the whole of brute_force_decrypt as one call: the attempts in the order
\* of the loop, then the updates of the best attempt from position i on
RECURSIVE BFLoop(_, _, _, _, _)
BFLoop(tries, i, score, sh, tx) ==
    IF i > Len(tries) THEN <<tx, sh>>
    ELSE IF IsBetter(tries[i][3], score)
         THEN BFLoop(tries, i + 1, tries[i][3], Some(tries[i][1]), Some(tries[i][2]))
         ELSE BFLoop(tries, i + 1, score, sh, tx)

\* the 26 attempts in the order in which the loop appends them
Attempts(c) ==
    LET shifts == {s \in 0..NumShifts : InRange(s)}
    IN  [i \in 1..Cardinality(shifts) |->
            LET decrypted == decrypt_text(c, i - 1)
            IN  <<i - 1, decrypted, calculate_word_score(decrypted)>>]

\* (best_text, best_shift, attempts) from the attempts of the loop
BFResult(tries) ==
    LET best == BFLoop(tries, 1, InitBestScore, None, None)
    IN  <<best[1], best[2], sort(tries)>>

\* returns (best_text, best_shift, attempts); the attempts are computed once
brute_force_decrypt(c) ==
    CHOOSE r \in {BFResult(tries) : tries \in {Attempts(c)}} : TRUE

\* str.strip(): without leading and trailing whitespace
RECURSIVE lstrip_space(_)
lstrip_space(w) ==
    IF w # <<>> /\ isspace(Head(w)) THEN lstrip_space(Tail(w)) ELSE w

RECURSIVE rstrip_space(_)
rstrip_space(w) ==
    IF w # <<>> /\ isspace(w[Len(w)])
    THEN rstrip_space(SubSeq(w, 1, Len(w) - 1))
    ELSE w

strip_space(w) == rstrip_space(lstrip_space(w))

\* brute_force_decrypt of every text the user can start a decryption with,
\* as pairs <<text, result>> computed once
BFTable == {<<c, brute_force_decrypt(c)>> : c \in {strip_space(t) : t \in GuiInputs}}

\* CaesarCipher.brute_force_decrypt's call of brute_force_decrypt(c)
BFCall(c) == (CHOOSE p \in BFTable : p[1] = c)[2]

\* text[:50]
Truncate(t) == SubSeq(t, 1, IF Len(t) < 50 THEN Len(t) ELSE 50)

\* enc[:50] + '...' if len(enc) > 50 else enc
Ellipsis(t) == IF Len(t) > 50 THEN SubSeq(t, 1, 50) \o <<46, 46, 46>> ELSE t

\* the texts of the two windows
EmptyDialog ==
    IF app = "interface"
    THEN <<"Empty", "Please enter encrypted text!">>
    ELSE <<"Empty", "Enter encrypted text!">>

WorkingStatus ==
    IF app = "interface" THEN <<"Trying all shifts...">> ELSE <<"Working...">>

SuccessStatus(s) ==
    IF app = "interface" THEN <<"Success! Shift: ", s>> ELSE <<"Done! Shift: ", s>>

FailedDialog ==
    IF app = "interface"
    THEN <<"Failed", "Could not decrypt!">>
    ELSE <<"Failed", "Could not decrypt">>

\* the history entry with the texts in full
HistoryEntryFull(s, t, original) ==
    IF app = "interface"
    THEN [shift |-> s, preview |-> t]
    ELSE [enc |-> original, dec |-> t, shift |-> s]

\* the history entry of a found shift (its 'time' is left out)
HistoryEntry(s, t, original) ==
    IF app = "interface"
    THEN [shift |-> s, preview |-> Truncate(t)]
    ELSE [enc |-> Ellipsis(original), dec |-> Ellipsis(t), shift |-> s]

\* start_decryption with t in the encrypted-text widget
start_decryption(t) ==
    LET enc_text == strip_space(t)
    IN  /\ txt_encrypted' = t
        /\ IF enc_text = <<>>
           THEN /\ dialog' = EmptyDialog
                /\ UNCHANGED <<btn_decrypt, status_text, workers>>
           ELSE /\ Len(workers) < MaxStarts
                /\ btn_decrypt' = "disabled"
                /\ status_text' = WorkingStatus
                /\ workers' = Append(workers,
                                     [ st |-> "running", enc_text |-> enc_text,
                                       shift |-> None, decrypted |-> None,
                                       attempts |-> <<>> ])
                /\ UNCHANGED dialog
        /\ UNCHANGED <<app, lbl_shift, current_shift, txt_decrypted, history,
                       queue, last_attempts, shift_chart, file_log>>
        /\ UNCHANGED <<text, n, cur, hist, bfvars, avars>>

\* a click on the decrypt button, which a disabled button does not deliver
ClickDecrypt ==
    /\ app # "off"
    /\ btn_decrypt = "normal"
    /\ \E t \in GuiInputs : start_decryption(t)

\* Ctrl+D, bound to start_decryption by interface.py alone
ShortcutDecrypt ==
    /\ app = "interface"
    /\ \E t \in GuiInputs : start_decryption(t)

\* worker thread: CaesarCipher.brute_force_decrypt(enc_text) runs and returns
WorkerCall(w) ==
    /\ workers[w].st = "running"
    /\ \E r \in {BFCall(workers[w].enc_text)} :
           /\ last_attempts' = r[3]
           /\ workers' = [workers EXCEPT ![w].st = "returned",
                                          ![w].shift = r[2],
                                          ![w].decrypted = r[1],
                                          ![w].attempts = r[3]]
    /\ UNCHANGED <<app, txt_encrypted, btn_decrypt, status_text, lbl_shift,
                   current_shift, txt_decrypted, history, dialog, queue, shift_chart,
                   file_log>>
    /\ UNCHANGED <<text, n, cur, hist, bfvars, avars>>

\* worker thread: window.after(0, callback, shift, text[, enc_text])
WorkerPost(w) ==
    /\ workers[w].st = "returned"
    /\ queue' = Append(queue, [ shift |-> workers[w].shift,
                                text |-> workers[w].decrypted,
                                original |-> workers[w].enc_text ])
    /\ workers' = [workers EXCEPT ![w].st = "posted"]
    /\ UNCHANGED <<app, txt_encrypted, btn_decrypt, status_text, lbl_shift,
                   current_shift, txt_decrypted, history, dialog, last_attempts,
                   shift_chart, file_log>>
    /\ UNCHANGED <<text, n, cur, hist, bfvars, avars>>

Worker == \E w \in 1..Len(workers) : WorkerCall(w) \/ WorkerPost(w)

\* the handler with a shift of None presented as shift 0
OnDecryptDoneZero(sh, tx, original) ==
    LET s == IF sh # None THEN sh[1] ELSE 0
        t == IF tx # None THEN tx[1] ELSE <<>>
    IN  /\ btn_decrypt' = "normal"
        /\ lbl_shift' = Some(s)
        /\ current_shift' = s
        /\ txt_decrypted' = t
        /\ status_text' = SuccessStatus(s)
        /\ history' = Append(history, HistoryEntry(s, t, original))
        /\ UNCHANGED dialog

\* _on_decrypt_done(shift, text) / _finish_decryption(shift, text, original)
OnDecryptDone(sh, tx, original) ==
    /\ btn_decrypt' = "normal"
    /\ IF sh # None
       THEN /\ lbl_shift' = Some(sh[1])
            /\ current_shift' = sh[1]
            /\ txt_decrypted' = tx[1]
            /\ status_text' = SuccessStatus(sh[1])
            /\ history' = Append(history, HistoryEntry(sh[1], tx[1], original))
            /\ UNCHANGED dialog
       ELSE /\ dialog' = FailedDialog
            /\ status_text' = <<"Failed">>
            /\ UNCHANGED <<lbl_shift, current_shift, txt_decrypted, history>>

\* the UI thread runs the next scheduled callback
RunCallback ==
    /\ queue # <<>>
    /\ OnDecryptDone(Head(queue).shift, Head(queue).text, Head(queue).original)
    /\ queue' = Tail(queue)
    /\ UNCHANGED <<app, txt_encrypted, workers, last_attempts, shift_chart,
                   file_log>>
    /\ UNCHANGED <<text, n, cur, hist, bfvars, avars>>

\* max(score for _, score in sorted_shifts)
MaxScore(shifts_data) ==
    CHOOSE sc \in {d[2] : d \in shifts_data} : \A d \in shifts_data : GE(sc, d[2])

\* plot_shift_attempts(shifts_data, best), shifts_data a dict given as
\* the set of its items: nothing is drawn without data; score / max_score
\* raises when the greatest score is 0.0; else every item is a point, and
\* the point at index i of the items sorted by shift is highlighted and
\* labelled "Best: i" when i == best
plot_shift_attempts(shifts_data, best) ==
    IF shifts_data = {} THEN [points |-> {}, best |-> {}]
    ELSE IF MaxScore(shifts_data) = Zero THEN ZeroDivisionError
         ELSE [ points |-> shifts_data,
                best |-> {i \in 0..(Cardinality(shifts_data) - 1) : i = best} ]

\* draw_shifts (interface.py) / draw_shift_analysis (enhanced_interface.py,
\* which wants text in the encrypted-text widget): the scores of
\* cipher.last_attempts by shift, and current_shift as the best shift
DrawShifts ==
    /\ app # "off"
    /\ IF app = "enhanced_interface" /\ strip_space(txt_encrypted) = <<>>
       THEN /\ dialog' = <<"Empty", "Decrypt first!">>
            /\ UNCHANGED shift_chart
       ELSE /\ shift_chart' =
                   Some(plot_shift_attempts(
                            {<<last_attempts[i][1], last_attempts[i][3]>> :
                                i \in 1..Len(last_attempts)},
                            current_shift))
            /\ UNCHANGED dialog
    /\ UNCHANGED <<app, txt_encrypted, btn_decrypt, status_text, lbl_shift,
                   current_shift, txt_decrypted, history, workers, queue,
                   last_attempts, file_log>>
    /\ UNCHANGED <<text, n, cur, hist, bfvars, avars>>

\* clear_enc_text of interface.py
ClearEncText ==
    /\ app = "interface"
    /\ txt_encrypted' = <<>>
    /\ lbl_shift' = None
    /\ UNCHANGED <<app, btn_decrypt, status_text, current_shift, txt_decrypted,
                   history, dialog, workers, queue, last_attempts, shift_chart,
                   file_log>>
    /\ UNCHANGED <<text, n, cur, hist, bfvars, avars>>

\* the Clear button of enhanced_interface.py: the encrypted text only
ClearInput ==
    /\ app = "enhanced_interface"
    /\ txt_encrypted' = <<>>
    /\ UNCHANGED <<app, btn_decrypt, status_text, lbl_shift, current_shift,
                   txt_decrypted, history, dialog, workers, queue, last_attempts,
                   shift_chart, file_log>>
    /\ UNCHANGED <<text, n, cur, hist, bfvars, avars>>

\* clear_everything of enhanced_interface.py (Edit > Clear)
ClearEverything ==
    /\ app = "enhanced_interface"
    /\ txt_encrypted' = <<>>
    /\ txt_decrypted' = <<>>
    /\ lbl_shift' = None
    /\ current_shift' = 0
    /\ status_text' = <<"Cleared">>
    /\ UNCHANGED <<app, btn_decrypt, history, dialog, workers, queue, last_attempts,
                   shift_chart, file_log>>
    /\ UNCHANGED <<text, n, cur, hist, bfvars, avars>>

----------------------------------------------------------------------------
(* Files (src/modules/file_handler.py) and the handlers of the window that *)
(* read and write them.  A result is <<ok, data>>; the path and the text   *)
(* of the exception that an error message ends with are left out.          *)

\* what open() meets at the chosen path: no file, a file that cannot be
\* read, or a file with its content ("", " \n", "wkh\n")
Files ==
    { [kind |-> "missing", content |-> <<>>],
      [kind |-> "unreadable", content |-> <<>>],
      [kind |-> "text", content |-> <<>>],
      [kind |-> "text", content |-> <<32, 10>>],
      [kind |-> "text", content |-> <<119, 107, 104, 10>>] }

\* read_encrypted_message: (success, content/error)
read_encrypted_message(f) ==
    IF f.kind = "missing" THEN <<FALSE, "File not found: ">>
    ELSE IF f.kind = "unreadable" THEN <<FALSE, "Error reading: ">>
         ELSE LET content == strip_space(f.content)
              IN  IF content = <<>> THEN <<FALSE, "File is empty">>
                  ELSE <<TRUE, content>>

\* save_decrypted_message: (success, filepath/error); writable says whether
\* open(filepath, 'w') and the write succeed
save_decrypted_message(content, sh, writable) ==
    IF writable THEN <<TRUE, "filepath">> ELSE <<FALSE, "Save failed: ">>

\* save_analysis_report: (success, filepath/error)
save_analysis_report(analysis_data, writable) ==
    IF writable THEN <<TRUE, "filepath">> ELSE <<FALSE, "Failed to save analysis: ">>

\* load_file / open_encrypted_file with a file chosen in the dialog
LoadFile ==
    /\ app # "off"
    /\ Len(file_log) < MaxFileOps
    /\ \E f \in Files : \E r \in {read_encrypted_message(f)} :
           /\ file_log' = Append(file_log, [op |-> "read", ok |-> r[1], data |-> r[2]])
           /\ IF r[1]
              THEN /\ txt_encrypted' = r[2]
                   /\ status_text' = <<"Loaded: ">>
                   /\ UNCHANGED dialog
              ELSE /\ dialog' = <<"Error", r[2]>>
                   /\ UNCHANGED <<txt_encrypted, status_text>>
    /\ UNCHANGED <<app, btn_decrypt, lbl_shift, current_shift, txt_decrypted, history,
                   workers, queue, last_attempts, shift_chart>>
    /\ UNCHANGED <<text, n, cur, hist, bfvars, avars>>

\* save_result: interface.py shows a failure, enhanced_interface.py has no
\* branch for it
SaveResult ==
    /\ app # "off"
    /\ IF strip_space(txt_decrypted) = <<>>
       THEN /\ dialog' = <<"Empty", "Nothing to save!">>
            /\ UNCHANGED <<file_log, status_text>>
       ELSE /\ Len(file_log) < MaxFileOps
            /\ \E writable \in BOOLEAN :
               \E r \in {save_decrypted_message(strip_space(txt_decrypted),
                                                 current_shift, writable)} :
                   /\ file_log' = Append(file_log,
                                         [op |-> "save", ok |-> r[1], data |-> r[2]])
                   /\ IF r[1]
                      THEN /\ dialog' = <<"Saved", r[2]>>
                           /\ status_text' = <<"Saved">>
                      ELSE IF app = "interface"
                           THEN /\ dialog' = <<"Error", r[2]>>
                                /\ UNCHANGED status_text
                           ELSE UNCHANGED <<dialog, status_text>>
    /\ UNCHANGED <<app, txt_encrypted, btn_decrypt, lbl_shift, current_shift,
                   txt_decrypted, history, workers, queue, last_attempts, shift_chart>>
    /\ UNCHANGED <<text, n, cur, hist, bfvars, avars>>

\* analyze_decrypted_text / run_analysis
AnalyzeDecrypted ==
    /\ app # "off"
    /\ IF strip_space(txt_decrypted) = <<>>
       THEN /\ dialog' = <<"Empty", "Decrypt first!">>
            /\ UNCHANGED <<status_text, analysis>>
       ELSE /\ \E a \in {full_analysis(strip_space(txt_decrypted))} :
                   analysis' = Returned(a, {a.average_word_length, a.vowel_percentage,
                                            a.letter_percentage, a.digit_percentage,
                                            a.space_percentage})
            /\ status_text' = <<"Analysis done">>
            /\ UNCHANGED dialog
    /\ UNCHANGED <<app, txt_encrypted, btn_decrypt, lbl_shift, current_shift,
                   txt_decrypted, history, workers, queue, last_attempts, shift_chart,
                   file_log>>
    /\ UNCHANGED <<text, n, cur, hist, bfvars, apc, chart>>

\* export_results: neither window has a branch for a failure
ExportResults ==
    /\ app # "off"
    /\ IF analysis = None
       THEN /\ dialog' = IF app = "interface"
                         THEN <<"No data", "Run analysis first!">>
                         ELSE <<"Empty", "No analysis!">>
            /\ UNCHANGED file_log
       ELSE /\ Len(file_log) < MaxFileOps
            /\ \E writable \in BOOLEAN :
               \E r \in {save_analysis_report(analysis, writable)} :
                   /\ file_log' = Append(file_log,
                                         [op |-> "export", ok |-> r[1], data |-> r[2]])
                   /\ IF r[1] THEN dialog' = <<"Exported", r[2]>> ELSE UNCHANGED dialog
    /\ UNCHANGED <<app, txt_encrypted, btn_decrypt, status_text, lbl_shift,
                   current_shift, txt_decrypted, history, workers, queue,
                   last_attempts, shift_chart>>
    /\ UNCHANGED <<text, n, cur, hist, bfvars, avars>>

----------------------------------------------------------------------------
(* The caller's calls of encrypt_text and decrypt_text *)

Encrypt ==
    /\ pc = "idle"
    /\ Len(hist) < MaxOps
    /\ cur' = encrypt_text(cur, n)
    /\ hist' = Append(hist, [op |-> "encrypt", in |-> cur, out |-> cur'])
    /\ UNCHANGED <<text, n, bfvars, avars, gvars>>

Decrypt ==
    /\ pc = "idle"
    /\ Len(hist) < MaxOps
    /\ cur' = decrypt_text(cur, n)
    /\ hist' = Append(hist, [op |-> "decrypt", in |-> cur, out |-> cur'])
    /\ UNCHANGED <<text, n, bfvars, avars, gvars>>

----------------------------------------------------------------------------
(* Inputs *)

\* "a", "z", "A", "Z", " ", ".", "2", e-acute, Cyrillic capital Zhe
Chars == {97, 122, 65, 90, 32, 46, 50, 233, 1046}

SmallTexts == UNION {[1..k -> Chars] : k \in 0..MaxLen}

ShiftArgs == (-MaxShiftArg)..MaxShiftArg

RECURSIVE JoinFrom(_, _)
JoinFrom(ws, i) ==
    IF i > Len(ws) THEN <<>>
    ELSE IF i = Len(ws) THEN ws[i]
         ELSE ws[i] \o <<32>> \o JoinFrom(ws, i + 1)

Join(ws) == JoinFrom(ws, 1)

\* "the message is secret and this is for the"
Example ==
    <<116, 104, 101, 32, 109, 101, 115, 115, 97, 103, 101, 32, 105, 115, 32,
      115, 101, 99, 114, 101, 116, 32, 97, 110, 100, 32, 116, 104, 105, 115,
      32, 105, 115, 32, 102, 111, 114, 32, 116, 104, 101>>

\* "xqzvbk jjww pfvv"
Gibberish ==
    <<120, 113, 122, 118, 98, 107, 32, 106, 106, 119, 119, 32, 112, 102, 118, 118>>

\* plaintexts built only from reference words
PlainTexts ==
    {Example} \cup
    UNION {{Join(ws) : ws \in [1..k -> COMMON_ENGLISH_WORDS]} : k \in 1..MaxWords}

\* two reference words, each shifted on its own
TwoWordTexts ==
    {encrypt_text(w1, a) \o <<32>> \o encrypt_text(w2, b) :
        w1 \in COMMON_ENGLISH_WORDS, w2 \in COMMON_ENGLISH_WORDS,
        a \in 0..MaxTieShift, b \in 0..MaxTieShift}

\* "The, is." / "to at xx." / "is; zz" / "Is -- to, xx"
Punctuated ==
    { <<84, 104, 101, 44, 32, 105, 115, 46>>,
      <<116, 111, 32, 97, 116, 32, 120, 120, 46>>,
      <<105, 115, 59, 32, 122, 122>>,
      <<73, 115, 32, 45, 45, 32, 116, 111, 44, 32, 120, 120>> }

\* "is is wr": 2/3 at shift 0, 1/3 at shift 3 ("fp fp to")
Graded == <<105, 115, 32, 105, 115, 32, 119, 114>>

CipherTexts == {<<>>, Gibberish, Graded} \cup TwoWordTexts \cup Punctuated \cup SmallTexts

idle ==
    /\ pc = "idle"
    /\ encrypted_text = <<>>
    /\ shift = 0
    /\ best_score = InitBestScore
    /\ best_shift = None
    /\ best_text = None
    /\ attempts = <<>>
    /\ is_eng = None
    /\ match_cnt = None

\* the text statistics are not in use
aoff ==
    /\ apc = "off"
    /\ analysis = None
    /\ chart = None

\* the window as __init__ leaves it
Widgets ==
    /\ txt_encrypted = <<>>
    /\ btn_decrypt = "normal"
    /\ status_text = <<"Ready">>
    /\ lbl_shift = None
    /\ current_shift = 0
    /\ txt_decrypted = <<>>
    /\ history = <<>>
    /\ dialog = None
    /\ workers = <<>>
    /\ queue = <<>>
    /\ last_attempts = <<>>
    /\ shift_chart = None
    /\ file_log = <<>>

\* no window is open
goff == app = "off" /\ Widgets

\* shift transform: a text and a shift, then calls of encrypt_text / decrypt_text
Init ==
    /\ text \in SmallTexts
    /\ n \in ShiftArgs
    /\ cur = text
    /\ hist = <<>>
    /\ idle
    /\ aoff
    /\ goff

Next == Encrypt \/ Decrypt

Spec == Init /\ [][Next]_vars

\* decoder: the ciphertext is encrypt_text(p, k) of a plaintext of reference
\* words, or a ciphertext of unknown origin
InitDecode ==
    /\ \/ /\ text \in PlainTexts
          /\ n \in 0..(NumShifts - 1)
          /\ cur = encrypt_text(text, n)
          /\ hist = <<[op |-> "encrypt", in |-> text, out |-> cur]>>
       \/ /\ text \in CipherTexts
          /\ n = 0
          /\ cur = text
          /\ hist = <<>>
    /\ idle
    /\ aoff
    /\ goff

NextDecode == BFStart \/ BFIter \/ BFReturn

DecodeSpec == InitDecode /\ [][NextDecode]_vars

\* The control skeleton of the loop: what BFIter and BFReturn do to pc and
\* shift.  A step of NextDecode is an Advance step exactly when it is a
\* BFIter or a BFReturn step, and Advance is enabled exactly when one of them
\* is, so fairness on Advance is fairness on the running call.
Advance ==
    /\ pc = "loop"
    /\ \/ InRange(shift) /\ shift' = shift + 1 /\ pc' = pc
       \/ ~InRange(shift) /\ pc' = "done" /\ shift' = shift

\* a call that has started keeps running: it is ordinary sequential code
FairDecodeSpec == DecodeSpec /\ WF_<<pc, shift>>(Advance)

\* "The cat sat. 2 Dogs ran racecar!"
Fixture ==
    <<84, 104, 101, 32, 99, 97, 116, 32, 115, 97, 116, 46, 32, 50, 32, 68,
      111, 103, 115, 32, 114, 97, 110, 32, 114, 97, 99, 101, 99, 97, 114, 33>>

\* "a", "b", "B", " ", tab, ".", "1"
AChars == {97, 98, 66, 32, 9, 46, 49}

ShortTexts == UNION {[1..k -> AChars] : k \in 0..MaxALen}

Repeat(ch, k) == [i \in 1..k |-> ch]

\* v vowels, c consonants, d digits, s spaces and o full stops, in that order
Composed(v, c, d, s, o) ==
    Repeat(97, v) \o Repeat(98, c) \o Repeat(49, d) \o Repeat(32, s) \o Repeat(46, o)

ComposedTexts ==
    {Composed(v, c, d, s, o) :
        v \in 0..MaxTotal, c \in 0..MaxTotal, d \in 0..MaxTotal,
        s \in 0..MaxTotal, o \in 0..MaxTotal}

\* "B. a. b", "a b B", "ab. Ab a"
Ties ==
    { <<66, 46, 32, 97, 46, 32, 98>>,
      <<97, 32, 98, 32, 66>>,
      <<97, 98, 46, 32, 65, 98, 32, 97>> }

\* "b a b c d e f g h i j k l m n o p q r s t u v A": 22 different words
Many ==
    <<98, 32, 97, 32, 98, 32, 99, 32, 100, 32, 101, 32, 102, 32, 103, 32, 104,
      32, 105, 32, 106, 32, 107, 32, 108, 32, 109, 32, 110, 32, 111, 32, 112,
      32, 113, 32, 114, 32, 115, 32, 116, 32, 117, 32, 118, 32, 65>>

\* "aa b. a.a Aa aa x1x 1 ab"
Mirrors ==
    <<97, 97, 32, 98, 46, 32, 97, 46, 97, 32, 65, 97, 32, 97, 97, 32, 120, 49,
      120, 32, 49, 32, 97, 98>>

AnalyzeTexts ==
    {Fixture, Many, Mirrors} \cup Ties \cup ShortTexts
        \cup {t \in ComposedTexts : Len(t) <= MaxTotal}

\* text statistics: a text, then analyze_text, or full_analysis and draw_chars
InitAnalyze ==
    /\ text \in AnalyzeTexts
    /\ n = 0
    /\ cur = text
    /\ hist = <<>>
    /\ idle
    /\ apc = "start"
    /\ analysis = None
    /\ chart = None
    /\ goff

NextAnalyze == Analyze \/ FullAnalysis \/ DrawChars \/ DrawFrequency

AnalyzeSpec == InitAnalyze /\ [][NextAnalyze]_vars

\* the window: one of the two applications, then its user, its worker
\* threads and its event loop
InitGui ==
    /\ text = <<>>
    /\ n = 0
    /\ cur = <<>>
    /\ hist = <<>>
    /\ idle
    /\ aoff
    /\ app \in {"interface", "enhanced_interface"}
    /\ Widgets

\* the window as a decryption of t that found a shift leaves it
AfterDecryption(t) ==
    \E r \in {brute_force_decrypt(strip_space(t))} :
        /\ txt_encrypted = t
        /\ btn_decrypt = "normal"
        /\ status_text = SuccessStatus(r[2][1])
        /\ lbl_shift = r[2]
        /\ current_shift = r[2][1]
        /\ txt_decrypted = r[1][1]
        /\ history = <<HistoryEntry(r[2][1], r[1][1], strip_space(t))>>
        /\ dialog = None
        /\ workers = << [ st |-> "posted", enc_text |-> strip_space(t),
                           shift |-> r[2], decrypted |-> r[1], attempts |-> r[3] ] >>
        /\ queue = <<>>
        /\ last_attempts = r[3]
        /\ shift_chart = None
        /\ file_log = <<>>

\* the window and its files: a new window, or one that has decrypted " lv ",
\* then the handlers that load, save, analyze and export
InitFile ==
    /\ text = <<>>
    /\ n = 0
    /\ cur = <<>>
    /\ hist = <<>>
    /\ idle
    /\ aoff
    /\ app \in {"interface", "enhanced_interface"}
    /\ Widgets \/ AfterDecryption(<<32, 108, 118, 32>>)

NextFile == LoadFile \/ SaveResult \/ AnalyzeDecrypted \/ ExportResults

FileSpec == InitFile /\ [][NextFile]_vars

NextGui ==
    \/ ClickDecrypt \/ ShortcutDecrypt \/ Worker \/ RunCallback \/ DrawShifts
    \/ ClearEncText \/ ClearInput \/ ClearEverything

GuiSpec == InitGui /\ [][NextGui]_vars

----------------------------------------------------------------------------
(* Properties of the shift transform, checked under Spec *)

Latin == (65..90) \cup (97..122)

Calls(op) == {i \in 1..Len(hist) : hist[i].op = op}

HasLatin(t) == \E j \in 1..Len(t) : t[j] \in Latin

\* C1: round trip: decrypt_text(encrypt_text(t, n), n) = t for every text t,
\* letters outside A-Z/a-z included, and every integer n.
C1_RoundTrip ==
    \A i \in 1..(Len(hist) - 1) :
        (hist[i].op = "encrypt" /\ hist[i + 1].op = "decrypt"
            /\ hist[i + 1].in = hist[i].out)
        => hist[i + 1].out = hist[i].in

\* C7: encrypt_text copies unchanged every character that is not in A-Z or
\* a-z, letters of other scripts and accented letters included.
C7_NonLatinPassThrough ==
    \A i \in Calls("encrypt") :
        \A j \in 1..Len(hist[i].in) :
            hist[i].in[j] \notin Latin => hist[i].out[j] = hist[i].in[j]

\* C8: identity: encrypt_text(t, 0) = t for every text t.
C8_Identity ==
    \A i \in Calls("encrypt") : n = 0 => hist[i].out = hist[i].in

\* C9: shift normalization: encrypt_text(t, n) = encrypt_text(t, n mod 26)
\* with n mod 26 in 0..25, for negative, zero and large n alike, and
\* decrypt_text(t, s) = encrypt_text(t, (26 - s) mod 26).
C9_Normalization ==
    /\ \A i \in Calls("encrypt") :
           hist[i].out = encrypt_text(hist[i].in, n % 26)
    /\ \A i \in Calls("decrypt") :
           hist[i].out = encrypt_text(hist[i].in, (26 - n) % 26)

\* an encryption and a decryption of a text with a Latin letter, by a shift
\* below -26, that moved the letter
C9_Witness ==
    /\ n < -26
    /\ Len(hist) = 2
    /\ hist[1].op = "encrypt" /\ hist[2].op = "decrypt"
    /\ HasLatin(text)
    /\ hist[1].out # hist[1].in

\* C10: frame of the shift: encrypt_text(t, n) is as long as t, and every
\* non-alphabetic character of t (digit, punctuation, whitespace) is at the
\* same position in the result, unchanged.
C10_Frame ==
    \A i \in Calls("encrypt") :
        /\ Len(hist[i].out) = Len(hist[i].in)
        /\ \A j \in 1..Len(hist[i].in) :
               ~isalpha(hist[i].in[j]) => hist[i].out[j] = hist[i].in[j]

\* an encryption that moved a letter of a text that also holds a digit, a
\* full stop or a space
C10_Witness ==
    \E i \in Calls("encrypt") :
        /\ \E j \in 1..Len(hist[i].in) : hist[i].out[j] # hist[i].in[j]
        /\ \E j \in 1..Len(hist[i].in) : hist[i].in[j] \in {32, 46, 50}

\* C11: case preservation: encrypt_text turns every alphabetic character
\* into a letter of the same case, an uppercase one into one of A-Z and a
\* lowercase one into one of a-z, whatever the shift.
C11_CasePreserved ==
    \A i \in Calls("encrypt") :
        \A j \in 1..Len(hist[i].in) :
            LET c == hist[i].in[j]
                d == hist[i].out[j]
            IN  isalpha(c) =>
                    /\ isupper(c) => d \in 65..90
                    /\ ~isupper(c) => d \in 97..122

\* an encryption of "Zz" that wrapped both letters round the alphabet
C11_Witness ==
    \E i \in Calls("encrypt") :
        /\ hist[i].in = <<90, 122>>
        /\ hist[i].out[1] \in 65..89
        /\ hist[i].out[2] \in 97..121

----------------------------------------------------------------------------
(* Properties of the decoder, checked under DecodeSpec *)

Scores == {attempts[i][3] : i \in 1..Len(attempts)}

\* the positions of the attempts with the greatest score
Top == {i \in 1..Len(attempts) :
            \A j \in 1..Len(attempts) : GE(attempts[i][3], attempts[j][3])}

TopShifts == {attempts[i][1] : i \in Top}

Least(S) == CHOOSE x \in S : \A y \in S : x <= y

Tried(c, s) == <<s, decrypt_text(c, s), calculate_word_score(decrypt_text(c, s))>>

\* The tokens of a text by position: a token starts at a non-whitespace
\* character that begins the text or follows whitespace, and runs to the
\* last character before the next whitespace or the end of the text.
TokenStarts(t) ==
    {i \in 1..Len(t) : ~isspace(t[i]) /\ (i = 1 \/ isspace(t[i - 1]))}

TokenEnd(t, i) ==
    CHOOSE j \in i..Len(t) :
        /\ \A k \in i..j : ~isspace(t[k])
        /\ j = Len(t) \/ isspace(t[j + 1])

\* the positions of a token that are not punctuation
Core(t, i) == {k \in i..TokenEnd(t, i) : t[k] \notin punctuation}

Greatest(S) == CHOOSE x \in S : \A y \in S : x >= y

\* the token in lower case without its leading and trailing punctuation
CleanedAt(t, i) ==
    SubSeq(lower(t), Least(Core(t, i)), Greatest(Core(t, i)))

\* the tokens that are not empty once cleaned, and those in the reference set
Kept(t) == {i \in TokenStarts(t) : Core(t, i) # {}}

Matched(t) == {i \in Kept(t) : CleanedAt(t, i) \in COMMON_ENGLISH_WORDS}

\* C2: for a plaintext p built only from reference words and c =
\* encrypt_text(p, k), k in 0..25, brute_force_decrypt(c) returns best shift
\* k and best text p.
C2_DecodesConstructed ==
    (pc = "done" /\ text \in PlainTexts /\ hist # <<>>
        /\ encrypted_text = encrypt_text(text, n))
    => (best_shift = Some(n) /\ best_text = Some(text))

\* the example of the specification, shifted by 7 and decoded
C2_Witness ==
    /\ pc = "done"
    /\ text = Example /\ n = 7 /\ hist # <<>>
    /\ encrypted_text # text
    /\ best_shift = Some(7)

\* C3: brute_force_decrypt returns best_shift = None and best_text = None
\* exactly when no attempt scores above 0.0; the empty ciphertext and
\* "xqzvbk jjww pfvv" give 26 attempts, all scoring 0.0, and None.
C3_NoSignal ==
    pc = "done" =>
        /\ (best_shift = None) <=> (\A sc \in Scores : ~GT(sc, Zero))
        /\ (best_text = None) <=> (best_shift = None)
        /\ encrypted_text \in {<<>>, Gibberish} =>
               /\ Len(attempts) = 26
               /\ Scores = {Zero}
               /\ best_shift = None

\* the gibberish decoded to no result
C3_Witness ==
    /\ pc = "done"
    /\ encrypted_text = Gibberish
    /\ best_shift = None
    /\ Len(attempts) = 26

\* C4: when two or more shifts have the same greatest, nonzero score, the
\* best shift is the lowest of them, the best text is its decryption, and
\* that attempt is first in the returned list.
C4_TieBreak ==
    (pc = "done" /\ Cardinality(TopShifts) >= 2 /\ Scores # {Zero})
    => LET s == Least(TopShifts)
       IN  /\ best_shift = Some(s)
           /\ best_text = Some(decrypt_text(encrypted_text, s))
           /\ attempts[1][1] = s
           /\ attempts[1][2] = decrypt_text(encrypted_text, s)

\* two shifts, neither of them 0, tie at the greatest score
C4_Witness ==
    /\ pc = "done"
    /\ Cardinality(TopShifts) = 2
    /\ Scores # {Zero}
    /\ 0 \notin TopShifts
    /\ best_shift = Some(Least(TopShifts))

\* C5: the returned attempts are in descending order of score, and attempts
\* of equal score are in ascending order of shift.
C5_Ranked ==
    pc = "done" =>
        \A i \in 1..Len(attempts) : \A j \in (i + 1)..Len(attempts) :
            /\ GE(attempts[i][3], attempts[j][3])
            /\ attempts[i][3] = attempts[j][3] => attempts[i][1] < attempts[j][1]

\* three different scores, the lowest shared by the remaining shifts, and a
\* best attempt that was not appended first
C5_Witness ==
    /\ pc = "done"
    /\ Len(attempts) = 26
    /\ GT(attempts[1][3], attempts[2][3])
    /\ GT(attempts[2][3], attempts[3][3])
    /\ attempts[3][3] = attempts[4][3]

\* C6: every call ends, having tried the shifts 0..25 in ascending order,
\* and returns exactly 26 attempts, one per shift s, each (s,
\* decrypt_text(c, s), calculate_word_score(decrypt_text(c, s))).
C6_TriesAllShifts ==
    /\ [](pc = "loop" =>
            /\ Len(attempts) = shift
            /\ \A i \in 1..Len(attempts) : attempts[i][1] = i - 1)
    /\ [](pc = "done" =>
            /\ Len(attempts) = 26
            /\ {attempts[i][1] : i \in 1..26} = 0..25
            /\ \A i \in 1..26 :
                   attempts[i] = Tried(encrypted_text, attempts[i][1]))
    /\ (pc = "loop") ~> (pc = "done")

\* a call on a ciphertext with a perfect score at shift 3 that returned 26
\* attempts
C6_Witness ==
    /\ pc = "done"
    /\ Len(attempts) = 26
    /\ best_shift = Some(3)
    /\ best_score = <<1, 1>>

\* C12: score definition: calculate_word_score(t) is the number of cleaned
\* tokens in the reference set divided by the number of cleaned tokens
\* (whitespace-split, lower-cased, leading and trailing punctuation stripped,
\* empty results discarded), 0.0 when there is no cleaned token, and always
\* in [0, 1].  Stated of the score the loop has just computed.
C12_ScoreDefinition ==
    (pc = "loop" /\ shift > 0) =>
        \A kept \in {Cardinality(Kept(attempts[shift][2]))} :
        \A matched \in {Cardinality(Matched(attempts[shift][2]))} :
            LET sc == attempts[shift][3]
            IN  /\ kept = 0 => sc = Zero
                /\ kept # 0 => sc[1] * kept = matched * sc[2]
                /\ sc[2] > 0 /\ 0 <= sc[1] /\ sc[1] <= sc[2]

\* "Is -- to, xx" scored 2/3: a capital, a token of punctuation only that
\* is discarded, a trailing comma that is stripped, and a token outside the
\* reference set
C12_Witness ==
    /\ pc = "loop" /\ shift > 0
    /\ attempts[shift][3] = <<2, 3>>
    /\ \E i \in TokenStarts(attempts[shift][2]) : i \notin Kept(attempts[shift][2])
    /\ \E i \in Matched(attempts[shift][2]) :
           attempts[shift][2][i] \in 65..90

\* C13: check_english_words(t, m) is (matches >= m, matches) with matches
\* the raw count of cleaned tokens in the reference set, the threshold being
\* 3 when the decoder calls it; and the shift the decoder selects is a
\* function of the 26 scores only: none when every score is 0.0, else the
\* least shift of greatest score, whatever the signal said.
C13_SignalUnused ==
    /\ (pc = "loop" /\ shift > 0) =>
           \A k \in {Cardinality(Matched(attempts[shift][2]))} :
               /\ match_cnt = Some(k)
               /\ is_eng = Some(k >= 3)
               /\ \A m \in 0..MaxMinMatches :
                      check_english_words(attempts[shift][2], m) = <<k >= m, k>>
    /\ pc = "done" =>
           best_shift = IF Scores = {Zero} THEN None ELSE Some(Least(TopShifts))

\* a call that selected its last shift, 25, although the signal was False
\* there (fewer than three matches)
C13_Witness ==
    /\ pc = "loop" /\ shift = 26
    /\ best_shift = Some(25)
    /\ is_eng = Some(FALSE)
    /\ match_cnt = Some(1)

----------------------------------------------------------------------------
(* Properties of the text statistics, checked under AnalyzeSpec *)

Analyzed == apc \in {"analyzed", "full", "drawn", "charted"}

\* the token that starts at position i
Token(t, i) == SubSeq(t, i, TokenEnd(t, i))

TokenLen(t, i) == TokenEnd(t, i) - i + 1

\* the start of the first token of minimal, resp. maximal, length
FirstShortest(t) ==
    Least({i \in TokenStarts(t) :
              \A j \in TokenStarts(t) : TokenLen(t, i) <= TokenLen(t, j)})

FirstLongest(t) ==
    Least({i \in TokenStarts(t) :
              \A j \in TokenStarts(t) : TokenLen(t, i) >= TokenLen(t, j)})

\* the double x is num / den to within two units in its last place (the
\* division and the multiplication by 100 each round once): with x = m * 2^e,
\* |m * den - num * 2^-e| <= 2 * den
Near(x, num, den) ==
    IF x = DZero THEN num = 0
    ELSE LET scaled == MulBits(x.m, den)
             exact == IF num = 0 THEN <<>> ELSE IntBits(num) \o Zeros(-x.e)
             tol == IntBits(2 * den)
         IN  /\ x.e <= 0
             /\ ~BitsGT(scaled, AddBits(exact, tol))
             /\ ~BitsGT(exact, AddBits(scaled, tol))

Hundred == FromInt(100)

\* C16 as stated: analyze_text("The cat sat. 2 Dogs ran racecar!") yields
\* word_count = 6.
C16_WordCountSix ==
    (Analyzed /\ text = Fixture) => analysis.word_count = 6

\* C16: word_count is the number of whitespace-split tokens of the text, no
\* punctuation stripped; analyze_text("The cat sat. 2 Dogs ran racecar!")
\* yields word_count = 7, the token "2" counting as a word.
C16_WordCount ==
    Analyzed =>
        /\ analysis.word_count = Cardinality(TokenStarts(text))
        /\ text = Fixture => analysis.word_count = 7

\* the text of the example analyzed
C16_Witness ==
    /\ apc = "analyzed"
    /\ text = Fixture
    /\ analysis.word_count = 7

\* C17: analyze_text("The cat sat. 2 Dogs ran racecar!") yields a word-length
\* distribution that maps 3 to 3 and agrees with the token lengths The(3)
\* cat(3) sat.(4) 2(1) Dogs(4) ran(3) racecar!(8), palindrome_words =
\* ["racecar!"] and digit_count = 1.
C17_Fixture ==
    (Analyzed /\ text = Fixture) =>
        /\ \E i \in 1..Len(analysis.word_length_distribution) :
               analysis.word_length_distribution[i] = <<3, 3>>
        /\ analysis.word_length_distribution = <<<<1, 1>>, <<3, 3>>, <<4, 2>>, <<8, 1>>>>
        /\ analysis.palindrome_words =
               << <<114, 97, 99, 101, 99, 97, 114, 33>> >>
        /\ analysis.digit_count = 1

\* the text of the example analyzed, its palindrome found with the
\* exclamation mark kept
C17_Witness ==
    /\ apc = "analyzed"
    /\ text = Fixture
    /\ Len(analysis.palindrome_words) = 1
    /\ analysis.palindrome_words[1][8] = 33

\* C18: for a text with at least one token, shortest_word is the first token
\* in text order of minimal length and longest_word the first token of
\* maximal length, each with its casing and punctuation; both are the empty
\* string when the text has no token.
C18_FirstExtremal ==
    Analyzed =>
        IF TokenStarts(text) = {}
        THEN analysis.shortest_word = <<>> /\ analysis.longest_word = <<>>
        ELSE /\ analysis.shortest_word = Token(text, FirstShortest(text))
             /\ analysis.longest_word = Token(text, FirstLongest(text))

\* a text of three tokens, the first two of them different and of the
\* greatest length, the first reported as longest with its capital and full
\* stop, and the third reported as shortest
C18_Witness ==
    /\ apc = "analyzed"
    /\ Cardinality(TokenStarts(text)) = 3
    /\ \E i, j \in TokenStarts(text) :
           /\ i < j
           /\ TokenLen(text, i) = TokenLen(text, j)
           /\ Token(text, i) # Token(text, j)
           /\ analysis.longest_word = Token(text, i)
    /\ analysis.longest_word = <<66, 46>>
    /\ Len(analysis.shortest_word) = 1
    /\ FirstShortest(text) > FirstLongest(text)

\* C19: vowel_percentage is 100 * (characters of the text in aeiouAEIOU) /
\* (alphabetic characters of the text), as a float, and 0.0 when the text
\* has no alphabetic character; the denominator is the letter count, not
\* the character count, and the value lies in [0, 100].
C19_VowelShare ==
    Analyzed =>
        LET v == Cardinality({i \in 1..Len(text) : text[i] \in vowels})
            a == Cardinality({i \in 1..Len(text) : isalpha(text[i])})
            x == analysis.vowel_percentage
        IN  /\ a = 0 => x = DZero
            /\ a > 0 => Near(x, 100 * v, a)
            /\ ~DGT(x, Hundred)

\* one vowel among three letters in a text that also holds other
\* characters: 33.33333333333333
C19_Witness ==
    /\ apc = "analyzed"
    /\ analysis.alphabetic_character_count = 3
    /\ analysis.character_count > 3
    /\ analysis.vowel_percentage = MulInt(DivInt(1, 3), 100)

\* C20: in full_analysis, letter_percentage, digit_percentage and
\* space_percentage are each 100 * (letters, digits, resp. spaces of the
\* text) / (characters of the text), and together they never exceed 100, so
\* the 'Other' share 100 - sum that draw_chars derives is never negative.
C20_SharesWithinHundred ==
    /\ apc \in {"full", "drawn"} =>
           LET total == Len(text)
               count(P(_)) == Cardinality({i \in 1..total : P(text[i])})
               IsSpace(ch) == ch = 32
           IN  /\ total > 0 =>
                      /\ Near(analysis.letter_percentage, 100 * count(isalpha), total)
                      /\ Near(analysis.digit_percentage, 100 * count(isdigit), total)
                      /\ Near(analysis.space_percentage, 100 * count(IsSpace), total)
               /\ ~DGT(ShareSum(analysis), Hundred)
    /\ apc = "drawn" => ~chart.Other.neg

\* C21: division guards: for the empty text, and for any text with no
\* tokens or no alphabetic characters, analyze_text and full_analysis do not
\* raise and return 0.0 for every ratio whose denominator is zero
\* (average_word_length without tokens, vowel_percentage without letters,
\* letter_, digit_ and space_percentage without characters), with word_count
\* 0, an empty distribution, empty top_words and an empty palindrome list
\* for the empty text.
C21_DivisionGuards ==
    Analyzed =>
        /\ analysis # ZeroDivisionError
        /\ TokenStarts(text) = {} => analysis.average_word_length = DZero
        /\ (\A i \in 1..Len(text) : ~isalpha(text[i])) =>
               analysis.vowel_percentage = DZero
        /\ text = <<>> =>
               /\ analysis.word_count = 0
               /\ analysis.word_length_distribution = <<>>
               /\ analysis.palindrome_words = <<>>
        /\ (text = <<>> /\ apc # "analyzed") =>
               /\ analysis.letter_percentage = DZero
               /\ analysis.digit_percentage = DZero
               /\ analysis.space_percentage = DZero
               /\ analysis.top_words = <<>>

\* the full analysis of the empty text returned, every ratio 0.0
C21_Witness ==
    /\ apc = "full"
    /\ text = <<>>
    /\ analysis # ZeroDivisionError
    /\ analysis.average_word_length = DZero
    /\ analysis.space_percentage = DZero
    /\ analysis.top_words = <<>>

\* the sum of the counts of a dict from position i on
RECURSIVE SumCounts(_, _)
SumCounts(d, i) == IF i > Len(d) THEN 0 ELSE d[i][2] + SumCounts(d, i + 1)

\* C22: word_length_distribution maps each token length that occurs to the
\* number of tokens of that length, contains no other keys, is reported in
\* ascending key order, and its counts sum to word_count.
C22_LengthDistribution ==
    Analyzed =>
        LET d == analysis.word_length_distribution
            lens == {TokenLen(text, i) : i \in TokenStarts(text)}
        IN  /\ {d[i][1] : i \in 1..Len(d)} = lens
            /\ \A i \in 1..Len(d) :
                   d[i][2] = Cardinality({j \in TokenStarts(text) :
                                             TokenLen(text, j) = d[i][1]})
            /\ \A i \in 1..Len(d) : \A j \in (i + 1)..Len(d) : d[i][1] < d[j][1]
            /\ SumCounts(d, 1) = analysis.word_count

\* the text of the example in the full analysis: the lengths met in the
\* order 3, 4, 1, 8 and reported as 1, 3, 4, 8, three tokens of length 3
C22_Witness ==
    /\ apc = "full"
    /\ text = Fixture
    /\ Len(analysis.word_length_distribution) = 4
    /\ analysis.word_length_distribution[1] = <<1, 1>>
    /\ analysis.word_length_distribution[2] = <<3, 3>>

\* C23: top_words of full_analysis lists (lower-cased token, count) pairs
\* over the whitespace-split tokens, no punctuation stripped, ordered by
\* count descending with equal counts in order of first occurrence in the
\* text, truncated to at most 20 entries; the word-frequency chart uses at
\* most the first 10 of them.
C23_TopWords ==
    /\ apc \in {"full", "drawn", "charted"} =>
           LET tw == analysis.top_words
               toks == TokenStarts(text)
               word(i) == lower(Token(text, i))
               words == {word(i) : i \in toks}
               count(w) == Cardinality({i \in toks : word(i) = w})
               first(w) == Least({i \in toks : word(i) = w})
               before(v, w) ==
                   \/ count(v) > count(w)
                   \/ count(v) = count(w) /\ first(v) < first(w)
           IN  /\ \A k \in 1..Len(tw) :
                      tw[k][1] \in words /\ tw[k][2] = count(tw[k][1])
               /\ \A k \in 1..Len(tw) : \A l \in (k + 1)..Len(tw) :
                      before(tw[k][1], tw[l][1])
               /\ Len(tw) = IF Cardinality(words) < 20 THEN Cardinality(words) ELSE 20
               /\ \A w \in words \ {tw[k][1] : k \in 1..Len(tw)} :
                      \A k \in 1..Len(tw) : before(tw[k][1], w)
    /\ apc = "charted" =>
           /\ Len(chart) <= 10
           /\ Len(chart) <= Len(analysis.top_words)
           /\ \A k \in 1..Len(chart) : chart[k] = analysis.top_words[k]
           /\ Len(analysis.top_words) >= 10 => Len(chart) = 10

\* 24 tokens and 22 different words: 20 of them kept, "b" before "a" (two
\* each, "a" counted with "A"), and 10 of them charted
C23_Witness ==
    /\ apc = "charted"
    /\ Cardinality(TokenStarts(text)) = 24
    /\ Len(analysis.top_words) = 20
    /\ analysis.top_words[1] = << <<98>>, 2 >>
    /\ analysis.top_words[2] = << <<97>>, 2 >>
    /\ Len(chart) = 10

\* the positions of the letters of the token that starts at i
LetterPositions(t, i) == {k \in i..TokenEnd(t, i) : isalpha(t[k])}

\* the token at i has two letters or more and its letters, case set aside,
\* read the same from both ends: the letter with r letters to its left is
\* the letter with r letters to its right
MirrorToken(t, i) ==
    LET L == LetterPositions(t, i)
    IN  /\ Cardinality(L) > 1
        /\ \A p, q \in L :
               Cardinality({r \in L : r < p}) = Cardinality({r \in L : r > q})
               => lower_ch(t[p]) = lower_ch(t[q])

\* C24: palindrome_words contains exactly the original (unstripped)
\* whitespace tokens whose cleaned form (non-alphabetic characters removed,
\* lower-cased) has length greater than 1 and reads the same forward and
\* backward, in the order in which they appear in the text, a token that
\* occurs again being listed again; single-letter tokens and tokens with no
\* letters are never reported.
C24_Palindromes ==
    Analyzed =>
        LET found == analysis.palindrome_words
            mirrors == {i \in TokenStarts(text) : MirrorToken(text, i)}
        IN  /\ Len(found) = Cardinality(mirrors)
            /\ \A i \in mirrors :
                   found[Cardinality({j \in mirrors : j <= i})] = Token(text, i)
            /\ \A k \in 1..Len(found) :
                   Cardinality({j \in 1..Len(found[k]) : isalpha(found[k][j])}) > 1

\* "aa b. a.a Aa aa x1x 1 ab" analyzed: "aa", "a.a", "Aa", "aa" and "x1x"
\* found, with their full stop, capital and digit, and neither "b." nor "1"
C24_Witness ==
    /\ apc = "analyzed"
    /\ text = Mirrors
    /\ Len(analysis.palindrome_words) = 5
    /\ analysis.palindrome_words[2] = <<97, 46, 97>>
    /\ analysis.palindrome_words[3] = <<65, 97>>
    /\ analysis.palindrome_words[4] = analysis.palindrome_words[1]
    /\ analysis.palindrome_words[5] = <<120, 49, 120>>

----------------------------------------------------------------------------
(* Properties of the window and its cipher object, checked under GuiSpec *)

C15_NoShiftOutcome ==
    [][ (queue # <<>> /\ queue' = Tail(queue) /\ Head(queue).shift = None)
        => /\ dialog' \in { <<"Failed", "Could not decrypt!">>,
                             <<"Failed", "Could not decrypt">> }
           /\ status_text' = <<"Failed">>
           /\ lbl_shift' = lbl_shift
           /\ txt_decrypted' = txt_decrypted
           /\ current_shift' = current_shift
           /\ history' = history ]_vars

\* LongInput decrypted as LongPlain by shift 3, then "zz" with no shift
\* found: the failure is reported while the window still shows shift 3 and
\* the text
C15_Witness ==
    /\ Len(workers) = 2
    /\ workers[2].st = "posted" /\ workers[2].shift = None
    /\ queue = <<>>
    /\ dialog # None
    /\ status_text = <<"Failed">>
    /\ lbl_shift = Some(3)
    /\ current_shift = 3
    /\ txt_decrypted = LongPlain
    /\ Len(history) = 1

\* a step in which the UI thread runs the completion callback at the head
\* of its queue
CallbackStep == queue # <<>> /\ queue' = Tail(queue)

\* the plaintext a history entry shows
EntryText(e) == IF app = "interface" THEN e.preview ELSE e.dec

FirstFifty(t) == SubSeq(t, 1, IF Len(t) < 50 THEN Len(t) ELSE 50)

\* a completed decryption that found a shift appends one entry with that
\* shift, one that found none appends nothing, nothing else changes the
\* history, and the entries already there stay as they are
OneEntryPerShiftFound ==
    /\ history' # history => CallbackStep
    /\ (CallbackStep /\ Head(queue).shift = None) => history' = history
    /\ (CallbackStep /\ Head(queue).shift # None) =>
           /\ Len(history') = Len(history) + 1
           /\ SubSeq(history', 1, Len(history)) = history
           /\ history'[Len(history')].shift = Head(queue).shift[1]

InFlight ==
    Cardinality({w \in 1..Len(workers) : workers[w].st # "posted"}) + Len(queue)

\* C27: at most one decryption worker is in flight at any time: from the
\* moment start_decryption launches a worker until its completion callback
\* has run on the UI thread, no user action (button click, menu, or the
\* Ctrl+D keyboard shortcut) can start a second worker.
C27_OneWorkerInFlight == InFlight <= 1

\* C28: the decrypt button is disabled for the whole time between the start
\* of a decryption with non-empty input and the run of its completion
\* callback on the UI thread, and it is enabled when no decryption is in
\* flight (after the callback, and after a start with empty input, which
\* launches no worker).
C28_ButtonFollowsWorker ==
    /\ \A w \in 1..Len(workers) : workers[w].enc_text # <<>>
    /\ btn_decrypt = "disabled" <=> InFlight > 0

\* the dict draw_shifts makes of an attempt list, as the set of its items
ScoresByShift(tries) ==
    {<<tries[i][1], tries[i][3]>> : i \in 1..Len(tries)}

\* C29: whenever the shift-analysis chart is drawn, the shift it highlights
\* as best is the best shift of the very decode call that produced the
\* charted attempt list (cipher.last_attempts); after any sequence of
\* successful decryptions, failed decryptions and clears it highlights no
\* stale shift, and no shift at all for attempts whose decode found none.
C29_HighlightedShift ==
    \A c \in (IF shift_chart = None THEN {} ELSE {shift_chart[1]}) :
        (c # ZeroDivisionError /\ c.points # {}) =>
            \E p \in BFTable :
                /\ ScoresByShift(p[2][3]) = c.points
                /\ c.best = (IF p[2][2] = None THEN {} ELSE {p[2][2][1]})

\* C30: plot_shift_attempts completes without a division-by-zero error for
\* every attempt list that brute_force_decrypt can produce, the no-signal
\* list in which all 26 scores are 0.0 included.
C30_PlotCompletes == shift_chart # Some(ZeroDivisionError)

----------------------------------------------------------------------------
(* Properties of the window and its files, checked under FileSpec *)

\* C25: every failed collaborator operation (file read, decrypted-message
\* save, analysis-report export) is returned by FileHandler as an explicit
\* (False, message) result instead of an exception, and the handler of the
\* window that invoked it shows that failure to the user and keeps running;
\* no failure is silently dropped.
C25_FailuresShown ==
    [][ file_log' # file_log =>
            LET r == file_log'[Len(file_log')]
            IN  /\ r.ok \in BOOLEAN
                /\ ~r.ok => /\ r.data \in {"File not found: ", "Error reading: ",
                                             "File is empty", "Save failed: ",
                                             "Failed to save analysis: "}
                            /\ dialog' = <<"Error", r.data>> ]_vars

====
